---- MODULE Spec2Model ----
(***************************************************************************)
(* A model of the safecast crate: the Safecast trait (src/src/lib.rs), the *)
(* safecast() bodies generated by #[derive(Safecast)]                      *)
(* (src/bytesafe/src/lib.rs) and the byte-level effects of                 *)
(* cast_copy_into, cast_copy, cast and cast_mut on a small flat memory.    *)
(***************************************************************************)
EXTENDS Integers, Sequences, FiniteSets, TLC

(***************************************************************************)
(* Bounds of the model.                                                    *)
(***************************************************************************)
\* addresses are 1..MemSize
MemSize == 24
\* the source operand of a call starts at one of the addresses 1..MaxSrcAddr
MaxSrcAddr == 4
\* largest operand (in bytes) placed in memory
MaxObjSize == 8
\* largest number of members of a generated aggregate
MaxMembers == 2
\* largest length of a fixed-length array type
MaxArrayLen == 2
\* largest number of writes through one cast_mut view
MaxWrites == 1
\* largest length of a slice that safecast() is called on directly
MaxSliceLen == 3
\* the fixed-length array impls: [T; 1] up to [T; 256]
MaxImplLen == 256

(***************************************************************************)
(* Types.  A type is a record; members holds the member types of a struct, *)
(* or the single element type of an array / slice; n is the array length   *)
(* or, for a slice (a fat pointer), the runtime length of the value.       *)
(***************************************************************************)
Prim(sz) == [kind |-> "prim", size |-> sz, members |-> <<>>, n |-> 0]
Struct(ms) == [kind |-> "struct", size |-> 0, members |-> ms, n |-> 0]
Array(t, len) == [kind |-> "array", size |-> 0, members |-> <<t>>, n |-> len]
Slice(t, len) == [kind |-> "slice", size |-> 0, members |-> <<t>>, n |-> len]

u8 == Prim(1)
u16 == Prim(2)
u32 == Prim(4)
Prims == {u8, u16, u32}

\* the two aggregates of the test crate, and the member-less tuple struct
Au32 == Struct(<<u32>>)
Au32Pad == Struct(<<u32, u8>>)
Unit == Struct(<<>>)

Max(a, b) == IF a >= b THEN a ELSE b
RoundUp(x, a) == ((x + a - 1) \div a) * a

RECURSIVE AlignOf(_)
RECURSIVE AlignOfMembers(_, _)
\* largest alignment among the first k members (1 for none)
AlignOfMembers(ms, k) ==
    IF k = 0 THEN 1 ELSE Max(AlignOfMembers(ms, k - 1), AlignOf(ms[k]))

\* core::mem::align_of
AlignOf(t) ==
    CASE t.kind = "prim" -> t.size
      [] t.kind = "struct" -> AlignOfMembers(t.members, Len(t.members))
      [] OTHER -> AlignOf(t.members[1])

RECURSIVE SizeOf(_)
RECURSIVE EndOf(_, _)
\* repr(C): offset one past member k, each member placed at the next
\* offset that is a multiple of its alignment
EndOf(ms, k) ==
    IF k = 0 THEN 0
    ELSE RoundUp(EndOf(ms, k - 1), AlignOf(ms[k])) + SizeOf(ms[k])

OffsetOf(ms, k) == RoundUp(EndOf(ms, k - 1), AlignOf(ms[k]))

\* core::mem::size_of / size_of_val
SizeOf(t) ==
    CASE t.kind = "prim" -> t.size
      [] t.kind = "struct" ->
            RoundUp(EndOf(t.members, Len(t.members)), AlignOf(t))
      [] OTHER -> t.n * SizeOf(t.members[1])

(***************************************************************************)
(* Outcomes: "ok", or the message of the panic that ended the call.        *)
(***************************************************************************)
Ok == "ok"
ZeroSizedOperand == "ZST not allowed"
SizeMismatch == "Size mismatch in cast_copy_into"
AlignmentMismatch == "Cast alignment mismatch"
IndivisibleSize == "cast src cannot be evenly divided by T"
PaddingDetected == "Safecast not allowed on structures with padding bytes"
IndexOutOfBounds == "index out of bounds"

\* what a panic reports besides its message: every assert! of the crate gives
\* a literal message and no format argument
panic_args(msg) == <<>>

(***************************************************************************)
(* Safecast::safecast.                                                     *)
(***************************************************************************)
RECURSIVE safecast(_)
RECURSIVE safecast_members(_, _, _)
RECURSIVE safecast_members_shallow(_, _, _)

\* faulty variant: the members' sizes are summed, but safecast is not called on them
safecast_members_shallow(t, k, unpadded_struct_size) ==
    IF k > Len(t.members)
    THEN IF unpadded_struct_size = SizeOf(t) THEN Ok ELSE PaddingDetected
    ELSE safecast_members_shallow(t, k + 1,
                                  unpadded_struct_size + SizeOf(t.members[k]))

\* the generated body: for each member in order, safecast(&self.m) and
\* unpadded_struct_size += size_of_val(&self.m); then the final assert
safecast_members(t, k, unpadded_struct_size) ==
    IF k > Len(t.members)
    THEN IF unpadded_struct_size = SizeOf(t) THEN Ok ELSE PaddingDetected
    ELSE IF safecast(t.members[k]) # Ok
         THEN safecast(t.members[k])
         ELSE safecast_members(t, k + 1,
                               unpadded_struct_size + SizeOf(t.members[k]))

\* self[i] of an array or slice: the element (as a type), after the bounds check
in_bounds(t, i) == i < t.n
index(t, i) == t.members[1]

\* faulty variant: an array or slice is accepted without looking at an element
safecast_no_delegation(t) ==
    CASE t.kind = "prim" -> Ok
      [] t.kind = "struct" -> safecast_members(t, 1, 0)
      [] t.kind = "array" -> Ok
      [] t.kind = "slice" -> IF ~in_bounds(t, 0) THEN IndexOutOfBounds ELSE Ok

\* faulty variant: element 0 of a slice is taken without the bounds check
safecast_unchecked_index(t) ==
    CASE t.kind = "prim" -> Ok
      [] t.kind = "struct" -> safecast_members(t, 1, 0)
      [] t.kind = "array" -> safecast(index(t, 0))
      [] t.kind = "slice" -> safecast(index(t, 0))

safecast(t) ==
    CASE t.kind = "prim" -> Ok
      [] t.kind = "struct" -> safecast_members(t, 1, 0)
      [] t.kind = "array" -> safecast(index(t, 0))
      [] t.kind = "slice" ->
            IF ~in_bounds(t, 0) THEN IndexOutOfBounds
            ELSE safecast(index(t, 0))

(***************************************************************************)
(* The operand types of the calls, and their placement in memory.          *)
(***************************************************************************)
SeqsUpTo(S, k) == UNION {[1..j -> S] : j \in 0..k}

\* #[repr(C)] structs of primitives, as derive(Safecast) accepts them
Structs1 == {Struct(ms) : ms \in SeqsUpTo(Prims, MaxMembers)}
Arrays1 == {Array(t, len) : t \in Prims, len \in 1..MaxArrayLen}
\* the Sized types: T of cast / cast_copy, Self and T of cast_copy_into
ValTypes == {t \in Prims \cup Structs1 \cup Arrays1 : SizeOf(t) <= MaxObjSize}

SliceElems == Prims \cup {Au32, Au32Pad, Unit}
SliceLens(e) ==
    IF SizeOf(e) = 0 THEN 0..MaxArrayLen ELSE 0..(MaxObjSize \div SizeOf(e))
SliceTypes == {Slice(e, len) : e \in SliceElems, len \in 0..MaxObjSize}
Slices == {t \in SliceTypes : t.n \in SliceLens(t.members[1])}

ObjTypes == ValTypes \cup Slices

Addr == 1..MemSize

\* a value or slice in memory: its address is a multiple of its alignment
Fits(t, a) == a % AlignOf(t) = 0 /\ a + SizeOf(t) - 1 <= MemSize
Obj(t, a) == [ty |-> t, addr |-> a]
Objects == {o \in [ty : ObjTypes, addr : Addr] : Fits(o.ty, o.addr)}
NoObj == Obj(u8, 0)
\* the source operands: every start address modulo the largest alignment
SrcObjects == {o \in Objects : o.addr <= MaxSrcAddr}
\* byte buffers ([u8] of every length)
ByteBufs == {t \in Slices : t.members[1] = u8}

Range(o) == o.addr..(o.addr + SizeOf(o.ty) - 1)
Disjoint(a, b) == Range(a) \cap Range(b) = {}
\* where the other operand (a local, a buffer) lies: the lowest address that
\* suits its type and keeps it apart from operand s
Free(t, s) == {a \in Addr : Fits(t, a) /\ Disjoint(s, Obj(t, a))}
Place(t, s) == CHOOSE a \in Free(t, s) : \A b \in Free(t, s) : a <= b
BytesOf(m, o) == [i \in 1..SizeOf(o.ty) |-> m[o.addr + i - 1]]

(***************************************************************************)
(* The trait's provided methods.  Each returns the outcome and what the    *)
(* call leaves behind (memory, or the view).                               *)
(***************************************************************************)
\* faulty variant: the copy stops one byte short
copy_one_short(m, src, dst, count) ==
    [a \in Addr |-> IF a \in dst..(dst + count - 2)
                    THEN m[src + (a - dst)] ELSE m[a]]

\* core::ptr::copy_nonoverlapping(src, dst, count) on bytes
copy_nonoverlapping(m, src, dst, count) ==
    [a \in Addr |-> IF a \in dst..(dst + count - 1)
                    THEN m[src + (a - dst)] ELSE m[a]]

\* faulty variant: the bytes are copied before dest is validated
cast_copy_into_copy_first(self, dest, m) ==
    IF ~(SizeOf(self.ty) > 0) THEN [res |-> ZeroSizedOperand, mem |-> m]
    ELSE IF ~(SizeOf(dest.ty) > 0) THEN [res |-> ZeroSizedOperand, mem |-> m]
    ELSE IF ~(SizeOf(self.ty) = SizeOf(dest.ty))
         THEN [res |-> SizeMismatch, mem |-> m]
    ELSE IF safecast(self.ty) # Ok THEN [res |-> safecast(self.ty), mem |-> m]
    ELSE [res |-> safecast(dest.ty),
          mem |-> copy_nonoverlapping(m, self.addr, dest.addr,
                                      SizeOf(self.ty))]

\* faulty variant: only self is checked for zero size
cast_copy_into_no_dest_zst(self, dest, m) ==
    IF ~(SizeOf(self.ty) > 0) THEN [res |-> ZeroSizedOperand, mem |-> m]
    ELSE IF ~(SizeOf(self.ty) = SizeOf(dest.ty))
         THEN [res |-> SizeMismatch, mem |-> m]
    ELSE IF safecast(self.ty) # Ok THEN [res |-> safecast(self.ty), mem |-> m]
    ELSE IF safecast(dest.ty) # Ok THEN [res |-> safecast(dest.ty), mem |-> m]
    ELSE [res |-> Ok,
          mem |-> copy_nonoverlapping(m, self.addr, dest.addr,
                                      SizeOf(self.ty))]

\* faulty variant: the pointers of the copy are exchanged
cast_copy_into_swapped(self, dest, m) ==
    IF ~(SizeOf(self.ty) > 0) THEN [res |-> ZeroSizedOperand, mem |-> m]
    ELSE IF ~(SizeOf(dest.ty) > 0) THEN [res |-> ZeroSizedOperand, mem |-> m]
    ELSE IF ~(SizeOf(self.ty) = SizeOf(dest.ty))
         THEN [res |-> SizeMismatch, mem |-> m]
    ELSE IF safecast(self.ty) # Ok THEN [res |-> safecast(self.ty), mem |-> m]
    ELSE IF safecast(dest.ty) # Ok THEN [res |-> safecast(dest.ty), mem |-> m]
    ELSE [res |-> Ok,
          mem |-> copy_nonoverlapping(m, dest.addr, self.addr,
                                      SizeOf(self.ty))]

\* Safecast::cast_copy_into: the asserts in the order of the code, then the copy
cast_copy_into(self, dest, m) ==
    IF ~(SizeOf(self.ty) > 0) THEN [res |-> ZeroSizedOperand, mem |-> m]
    ELSE IF ~(SizeOf(dest.ty) > 0) THEN [res |-> ZeroSizedOperand, mem |-> m]
    ELSE IF ~(SizeOf(self.ty) = SizeOf(dest.ty))
         THEN [res |-> SizeMismatch, mem |-> m]
    ELSE IF safecast(self.ty) # Ok THEN [res |-> safecast(self.ty), mem |-> m]
    ELSE IF safecast(dest.ty) # Ok THEN [res |-> safecast(dest.ty), mem |-> m]
    ELSE [res |-> Ok,
          mem |-> copy_nonoverlapping(m, self.addr, dest.addr,
                                      SizeOf(self.ty))]

\* mem::uninitialized(): the bytes of ret are whatever the build leaves there
uninitialized(m, ret, fill) ==
    [a \in Addr |-> IF a \in Range(ret) THEN fill ELSE m[a]]

\* faulty variant: ret is returned as mem::uninitialized() left it
cast_copy_no_copy(self, ret, m) ==
    [res |-> cast_copy_into(self, ret, m).res, mem |-> m]

\* let mut ret = uninitialized(); self.cast_copy_into(&mut ret); ret
cast_copy(self, ret, m) == cast_copy_into(self, ret, m)

\* a view: core::slice::from_raw_parts(ptr as *const T, len)
NoView == [live |-> FALSE, ptr |-> 0, len |-> 0, elem |-> u8, mutable |-> FALSE]
from_raw_parts(ptr, T, len, mut) ==
    [live |-> TRUE, ptr |-> ptr, len |-> len, elem |-> T, mutable |-> mut]

\* faulty variant: the element count is the size in bytes
cast_len_in_bytes(self, T) ==
    IF ~(SizeOf(self.ty) > 0) THEN [res |-> ZeroSizedOperand, view |-> NoView]
    ELSE IF ~(SizeOf(T) > 0) THEN [res |-> ZeroSizedOperand, view |-> NoView]
    ELSE IF safecast(self.ty) # Ok
         THEN [res |-> safecast(self.ty), view |-> NoView]
    ELSE IF ~(AlignOf(T) > 0 /\ self.addr % AlignOf(T) = 0)
         THEN [res |-> AlignmentMismatch, view |-> NoView]
    ELSE IF ~(SizeOf(self.ty) % SizeOf(T) = 0)
         THEN [res |-> IndivisibleSize, view |-> NoView]
    ELSE LET casted == from_raw_parts(self.addr, T,
                                      SizeOf(self.ty), FALSE)
         IN  IF safecast(Slice(T, casted.len)) # Ok
             THEN [res |-> safecast(Slice(T, casted.len)), view |-> NoView]
             ELSE [res |-> Ok, view |-> casted]

\* faulty variant: the view is returned without validating it
cast_unchecked_output(self, T) ==
    IF ~(SizeOf(self.ty) > 0) THEN [res |-> ZeroSizedOperand, view |-> NoView]
    ELSE IF ~(SizeOf(T) > 0) THEN [res |-> ZeroSizedOperand, view |-> NoView]
    ELSE IF safecast(self.ty) # Ok
         THEN [res |-> safecast(self.ty), view |-> NoView]
    ELSE IF ~(AlignOf(T) > 0 /\ self.addr % AlignOf(T) = 0)
         THEN [res |-> AlignmentMismatch, view |-> NoView]
    ELSE IF ~(SizeOf(self.ty) % SizeOf(T) = 0)
         THEN [res |-> IndivisibleSize, view |-> NoView]
    ELSE LET casted == from_raw_parts(self.addr, T,
                                      SizeOf(self.ty) \div SizeOf(T), FALSE)
         IN  [res |-> Ok, view |-> casted]

\* faulty variant: the alignments of the two types are compared, not the address
cast_type_align(self, T) ==
    IF ~(SizeOf(self.ty) > 0) THEN [res |-> ZeroSizedOperand, view |-> NoView]
    ELSE IF ~(SizeOf(T) > 0) THEN [res |-> ZeroSizedOperand, view |-> NoView]
    ELSE IF safecast(self.ty) # Ok
         THEN [res |-> safecast(self.ty), view |-> NoView]
    ELSE IF ~(AlignOf(T) > 0 /\ AlignOf(self.ty) % AlignOf(T) = 0)
         THEN [res |-> AlignmentMismatch, view |-> NoView]
    ELSE IF ~(SizeOf(self.ty) % SizeOf(T) = 0)
         THEN [res |-> IndivisibleSize, view |-> NoView]
    ELSE LET casted == from_raw_parts(self.addr, T,
                                      SizeOf(self.ty) \div SizeOf(T), FALSE)
         IN  IF safecast(Slice(T, casted.len)) # Ok
             THEN [res |-> safecast(Slice(T, casted.len)), view |-> NoView]
             ELSE [res |-> Ok, view |-> casted]

\* faulty variant: self is not checked for zero size
cast_no_zst_check(self, T) ==
    IF ~(SizeOf(T) > 0) THEN [res |-> ZeroSizedOperand, view |-> NoView]
    ELSE IF safecast(self.ty) # Ok
         THEN [res |-> safecast(self.ty), view |-> NoView]
    ELSE IF ~(AlignOf(T) > 0 /\ self.addr % AlignOf(T) = 0)
         THEN [res |-> AlignmentMismatch, view |-> NoView]
    ELSE IF ~(SizeOf(self.ty) % SizeOf(T) = 0)
         THEN [res |-> IndivisibleSize, view |-> NoView]
    ELSE LET casted == from_raw_parts(self.addr, T,
                                      SizeOf(self.ty) \div SizeOf(T), FALSE)
         IN  IF safecast(Slice(T, casted.len)) # Ok
             THEN [res |-> safecast(Slice(T, casted.len)), view |-> NoView]
             ELSE [res |-> Ok, view |-> casted]

\* Safecast::cast: the checks in the order of the code, then the view
cast(self, T) ==
    IF ~(SizeOf(self.ty) > 0) THEN [res |-> ZeroSizedOperand, view |-> NoView]
    ELSE IF ~(SizeOf(T) > 0) THEN [res |-> ZeroSizedOperand, view |-> NoView]
    ELSE IF safecast(self.ty) # Ok
         THEN [res |-> safecast(self.ty), view |-> NoView]
    ELSE IF ~(AlignOf(T) > 0 /\ self.addr % AlignOf(T) = 0)
         THEN [res |-> AlignmentMismatch, view |-> NoView]
    ELSE IF ~(SizeOf(self.ty) % SizeOf(T) = 0)
         THEN [res |-> IndivisibleSize, view |-> NoView]
    ELSE LET casted == from_raw_parts(self.addr, T,
                                      SizeOf(self.ty) \div SizeOf(T), FALSE)
         IN  IF safecast(Slice(T, casted.len)) # Ok
             THEN [res |-> safecast(Slice(T, casted.len)), view |-> NoView]
             ELSE [res |-> Ok, view |-> casted]

\* faulty variant: the alignment of the address is not checked
cast_mut_no_align_check(self, T) ==
    IF ~(SizeOf(self.ty) > 0) THEN [res |-> ZeroSizedOperand, view |-> NoView]
    ELSE IF ~(SizeOf(T) > 0) THEN [res |-> ZeroSizedOperand, view |-> NoView]
    ELSE IF safecast(self.ty) # Ok
         THEN [res |-> safecast(self.ty), view |-> NoView]
    ELSE IF ~(SizeOf(self.ty) % SizeOf(T) = 0)
         THEN [res |-> IndivisibleSize, view |-> NoView]
    ELSE LET casted == from_raw_parts(self.addr, T,
                                      SizeOf(self.ty) \div SizeOf(T), TRUE)
         IN  IF safecast(Slice(T, casted.len)) # Ok
             THEN [res |-> safecast(Slice(T, casted.len)), view |-> NoView]
             ELSE [res |-> Ok, view |-> casted]

\* faulty variant: the size of self is not checked to be a multiple of that of T
cast_mut_no_div_check(self, T) ==
    IF ~(SizeOf(self.ty) > 0) THEN [res |-> ZeroSizedOperand, view |-> NoView]
    ELSE IF ~(SizeOf(T) > 0) THEN [res |-> ZeroSizedOperand, view |-> NoView]
    ELSE IF safecast(self.ty) # Ok
         THEN [res |-> safecast(self.ty), view |-> NoView]
    ELSE IF ~(AlignOf(T) > 0 /\ self.addr % AlignOf(T) = 0)
         THEN [res |-> AlignmentMismatch, view |-> NoView]
    ELSE LET casted == from_raw_parts(self.addr, T,
                                      SizeOf(self.ty) \div SizeOf(T), TRUE)
         IN  IF safecast(Slice(T, casted.len)) # Ok
             THEN [res |-> safecast(Slice(T, casted.len)), view |-> NoView]
             ELSE [res |-> Ok, view |-> casted]

\* Safecast::cast_mut: the same checks, the view being mutable
cast_mut(self, T) ==
    IF ~(SizeOf(self.ty) > 0) THEN [res |-> ZeroSizedOperand, view |-> NoView]
    ELSE IF ~(SizeOf(T) > 0) THEN [res |-> ZeroSizedOperand, view |-> NoView]
    ELSE IF safecast(self.ty) # Ok
         THEN [res |-> safecast(self.ty), view |-> NoView]
    ELSE IF ~(AlignOf(T) > 0 /\ self.addr % AlignOf(T) = 0)
         THEN [res |-> AlignmentMismatch, view |-> NoView]
    ELSE IF ~(SizeOf(self.ty) % SizeOf(T) = 0)
         THEN [res |-> IndivisibleSize, view |-> NoView]
    ELSE LET casted == from_raw_parts(self.addr, T,
                                      SizeOf(self.ty) \div SizeOf(T), TRUE)
         IN  IF safecast(Slice(T, casted.len)) # Ok
             THEN [res |-> safecast(Slice(T, casted.len)), view |-> NoView]
             ELSE [res |-> Ok, view |-> casted]

\* the bytes of element i (0-based) of a view
ElemRange(v, i) ==
    (v.ptr + i * SizeOf(v.elem))..(v.ptr + (i + 1) * SizeOf(v.elem) - 1)
ViewRange(v) == UNION {ElemRange(v, i) : i \in 0..(v.len - 1)}
\* casted[i] = value, every byte of the value being b
index_mut(m, v, i, b) == [a \in Addr |-> IF a \in ElemRange(v, i) THEN b ELSE m[a]]

(***************************************************************************)
(* State.                                                                  *)
(***************************************************************************)
VARIABLES
    mem,     \* the bytes of memory
    mem0,    \* the bytes of memory when the last call was entered
    pc,      \* "idle": no call made yet; "done": the last call has ended
    call,    \* the last call: its name, operands and outcome
    view,    \* the slice the last cast / cast_mut returned
    ret,     \* the value the last cast_copy returned, and the bytes it was made from
    wrote,   \* the writes made through the view: count, and last index
    ty,      \* the type a direct safecast() call is made on
    verdict, \* the outcome of that call
    decl,    \* the declaration derive(Safecast) is applied to
    gen,     \* what derive_safecast made of it
    th       \* the threads: each one's call, its position in it, its locals

vars == <<mem, mem0, pc, call, view, ret, wrote, ty, verdict, decl, gen, th>>

FreshMem == [a \in Addr |-> a]
NoDecl == [repr_c |-> FALSE, public |-> FALSE, shape |-> "none",
           members |-> <<>>]
NoGen == [done |-> FALSE, emitted |-> FALSE, error |-> "", ty |-> u8]
NoThreads == <<>>
UninitFill == {0, 255}
WriteFill == {170}
NoCall == [op |-> "none", src |-> NoObj, dst |-> NoObj, res |-> Ok]
NoRet == [live |-> FALSE, obj |-> NoObj, from |-> <<>>]
NoWrite == [count |-> 0, idx |-> 0, byte |-> 0]

Init ==
    /\ mem = FreshMem
    /\ mem0 = FreshMem
    /\ pc = "idle"
    /\ call = NoCall
    /\ view = NoView
    /\ ret = NoRet
    /\ wrote = NoWrite
    /\ ty = u8
    /\ verdict = "none"
    /\ decl = NoDecl
    /\ gen = NoGen
    /\ th = NoThreads

\* source.cast_copy_into(&mut dest) on fresh operands
CastCopyInto ==
    /\ pc = "idle"
    /\ \E s \in SrcObjects, dt \in ObjTypes :
       /\ Free(dt, s) # {}
       /\ LET d == Obj(dt, Place(dt, s))
              r == cast_copy_into(s, d, mem)
          IN  /\ mem' = r.mem
              /\ call' = [op |-> "cast_copy_into", src |-> s, dst |-> d,
                          res |-> r.res]
       /\ mem0' = mem
       /\ pc' = "done"
       /\ UNCHANGED <<view, ret, wrote, ty, verdict, decl, gen, th>>

\* value.cast_copy_into(&mut buffer), value being what cast_copy returned
CastCopyBack ==
    /\ pc = "done"
    /\ call.op = "cast_copy"
    /\ ret.live
    /\ \E dt \in ByteBufs :
       /\ Free(dt, ret.obj) # {}
       /\ LET d == Obj(dt, Place(dt, ret.obj))
              r == cast_copy_into(ret.obj, d, mem)
          IN  /\ mem' = r.mem
              /\ call' = [op |-> "cast_copy_into", src |-> ret.obj, dst |-> d,
                          res |-> r.res]
       /\ mem0' = mem
       /\ UNCHANGED <<pc, view, ret, wrote, ty, verdict, decl, gen, th>>

\* source.cast_copy::<T>(); fill is what the uninitialized ret holds
CastCopy ==
    /\ pc = "idle"
    /\ \E s \in SrcObjects, T \in ValTypes, fill \in UninitFill :
       /\ Free(T, s) # {}
       /\ LET o == Obj(T, Place(T, s))
              m0 == uninitialized(mem, o, fill)
              r == cast_copy(s, o, m0)
          IN  /\ mem0' = m0
              /\ mem' = r.mem
              /\ call' = [op |-> "cast_copy", src |-> s, dst |-> o,
                          res |-> r.res]
              /\ ret' = IF r.res = Ok
                        THEN [live |-> TRUE, obj |-> o, from |-> BytesOf(mem, s)]
                        ELSE NoRet
       /\ pc' = "done"
       /\ UNCHANGED <<view, wrote, ty, verdict, decl, gen, th>>

\* source.cast::<T>()
Cast ==
    /\ pc = "idle"
    /\ \E s \in SrcObjects, T \in ValTypes :
       /\ LET r == cast(s, T)
          IN  /\ view' = r.view
              /\ call' = [op |-> "cast", src |-> s, dst |-> Obj(T, 0),
                          res |-> r.res]
       /\ mem0' = mem
       /\ pc' = "done"
       /\ UNCHANGED <<mem, ret, wrote, ty, verdict, decl, gen, th>>

\* source.cast_mut::<T>()
CastMut ==
    /\ pc = "idle"
    /\ \E s \in SrcObjects, T \in ValTypes :
       /\ LET r == cast_mut(s, T)
          IN  /\ view' = r.view
              /\ call' = [op |-> "cast_mut", src |-> s, dst |-> Obj(T, 0),
                          res |-> r.res]
       /\ mem0' = mem
       /\ pc' = "done"
       /\ UNCHANGED <<mem, ret, wrote, ty, verdict, decl, gen, th>>

\* casted[i] = value, through the slice cast_mut returned
ViewWrite ==
    /\ pc = "done"
    /\ view.live /\ view.mutable
    /\ wrote.count < MaxWrites
    /\ \E i \in 0..(view.len - 1), b \in WriteFill :
       /\ mem' = index_mut(mem, view, i, b)
       /\ mem0' = mem
       /\ wrote' = [count |-> wrote.count + 1, idx |-> i, byte |-> b]
       /\ UNCHANGED <<pc, call, view, ret, ty, verdict, decl, gen, th>>

\* the operands go out of scope; the next call starts on fresh ones
Return ==
    /\ pc = "done"
    /\ mem' = FreshMem
    /\ mem0' = FreshMem
    /\ pc' = "idle"
    /\ call' = NoCall
    /\ view' = NoView
    /\ ret' = NoRet
    /\ wrote' = NoWrite
    /\ UNCHANGED <<ty, verdict, decl, gen, th>>

Next ==
    \/ CastCopyInto
    \/ CastCopyBack
    \/ CastCopy
    \/ Cast
    \/ CastMut
    \/ ViewWrite
    \/ Return

Spec == Init /\ [][Next]_vars

(***************************************************************************)
(* Direct calls of safecast() on values of nested aggregate types.         *)
(***************************************************************************)
Types1 == Prims \cup Structs1 \cup Arrays1
Structs2 == {Struct(ms) : ms \in SeqsUpTo(Types1, MaxMembers)}
Arrays2 == {Array(t, len) : t \in Types1, len \in 1..MaxArrayLen}
Structs3 == {Struct(<<t, p>>) : t \in Arrays2, p \in Prims}
\* [T; N] for every N that has an impl, and [T] of every small length
ImplArrays == {Array(e, len) : e \in SliceElems, len \in 1..MaxImplLen}
DirectSlices == {Slice(e, len) : e \in SliceElems, len \in 0..MaxSliceLen}
AllTypes ==
    Types1 \cup Structs2 \cup Arrays2 \cup Structs3 \cup ImplArrays
    \cup DirectSlices

InitTypes ==
    /\ mem = FreshMem
    /\ mem0 = FreshMem
    /\ pc = "idle"
    /\ call = NoCall
    /\ view = NoView
    /\ ret = NoRet
    /\ wrote = NoWrite
    /\ ty \in AllTypes
    /\ verdict = "none"
    /\ decl = NoDecl
    /\ gen = NoGen
    /\ th = NoThreads

\* Safecast::safecast(&value), value of type ty
Validate ==
    /\ verdict = "none"
    /\ verdict' = safecast(ty)
    /\ UNCHANGED <<mem, mem0, pc, call, view, ret, wrote, ty, decl, gen, th>>

NextTypes == Validate

SpecTypes == InitTypes /\ [][NextTypes]_vars

(***************************************************************************)
(* derive(Safecast).  The macro works on the text of the declaration; the  *)
(* text is modelled as lines of tokens.                                    *)
(***************************************************************************)
Shapes == {"unit", "named", "tuple", "enum"}
Decls ==
    {d \in [repr_c : BOOLEAN, public : BOOLEAN, shape : Shapes,
            members : SeqsUpTo(Prims, MaxMembers)] :
        d.shape \in {"unit", "enum"} => d.members = <<>>}

TypeName(t) == CASE t = u8 -> "u8" [] t = u16 -> "u16" [] t = u32 -> "u32"
TypeNamed(tok) == CHOOSE t \in Prims : TypeName(t) = tok
FieldNames == <<"a", "b", "c">>

RECURSIVE concat(_)
concat(ls) == IF ls = <<>> THEN <<>> ELSE Head(ls) \o concat(Tail(ls))

\* item.to_string(): the attribute line, then the declaration
Keyword(d) ==
    (IF d.public THEN <<"pub">> ELSE <<>>)
    \o <<IF d.shape = "enum" THEN "enum" ELSE "struct", "A">>
NamedMember(d, k) == <<FieldNames[k], ":", TypeName(d.members[k]), ",">>
TupleMember(d, k) ==
    <<TypeName(d.members[k])>> \o (IF k < Len(d.members) THEN <<",">> ELSE <<>>)
to_string(d) ==
    (IF d.repr_c THEN << <<"#[repr(C)]">> >> ELSE <<>>)
    \o CASE d.shape = "unit" -> << Keyword(d) \o <<";">> >>
         [] d.shape = "enum" -> << Keyword(d) \o <<"{">>, <<"}">> >>
         [] d.shape = "named" ->
               << Keyword(d) \o <<"{">> >>
               \o [k \in 1..Len(d.members) |-> NamedMember(d, k)]
               \o << <<"}">> >>
         [] d.shape = "tuple" ->
               << Keyword(d) \o <<"(">>
                  \o concat([k \in 1..Len(d.members) |-> TupleMember(d, k)])
                  \o <<")", ";">> >>

ends_with(text, suffix) ==
    /\ Len(text) >= Len(suffix)
    /\ SubSeq(text, Len(text) - Len(suffix) + 1, Len(text)) = suffix
starts_with(text, prefix) ==
    Len(text) >= Len(prefix) /\ SubSeq(text, 1, Len(prefix)) = prefix

\* the index of the first occurrence of pat in text at or after i, 0 if none
RECURSIVE find(_, _, _)
find(text, pat, i) ==
    IF i + Len(pat) - 1 > Len(text) THEN 0
    ELSE IF SubSeq(text, i, i + Len(pat) - 1) = pat THEN i
    ELSE find(text, pat, i + 1)

\* text.split(","): the pieces between the commas, the empty ones included
RECURSIVE split(_)
split(text) ==
    LET c == find(text, <<",">>, 1)
    IN  IF c = 0 THEN <<text>>
        ELSE <<SubSeq(text, 1, c - 1)>>
             \o split(SubSeq(text, c + 1, Len(text)))

\* the loop over fields.split(","): it ends at the first empty piece
RECURSIVE parsed_fields(_, _)
parsed_fields(pieces, is_named_struct) ==
    IF pieces = <<>> \/ Len(Head(pieces)) = 0 THEN <<>>
    ELSE <<TypeNamed(IF is_named_struct THEN Head(pieces)[3]
                     ELSE Head(pieces)[1])>>
         \o parsed_fields(Tail(pieces), is_named_struct)

NoStructLine ==
    "Failed to find struct or pub struct, type not allowed for Safecast"
Refused(msg) == [done |-> TRUE, emitted |-> FALSE, error |-> msg, ty |-> u8]
Emitted(t) == [done |-> TRUE, emitted |-> TRUE, error |-> "", ty |-> t]

derive_safecast(lines) ==
    LET commentless == concat(lines)
        is_tuple_struct == ends_with(commentless, <<")", ";">>)
        is_named_struct == ends_with(commentless, <<"}">>)
    IN  IF ~(\E i \in 1..Len(lines) : lines[i] = <<"#[repr(C)]">>)
        THEN Refused("Structure must be #[repr(C)] for Safecast")
        ELSE IF ~(\E i \in 1..Len(lines) :
                     starts_with(lines[i], <<"struct">>)
                     \/ starts_with(lines[i], <<"pub", "struct">>))
        THEN Refused(NoStructLine)
        ELSE IF ~(is_tuple_struct # is_named_struct)
        THEN Refused("Unit structures not allowed in Safecast")
        ELSE LET open == find(commentless,
                              IF is_named_struct THEN <<"{">> ELSE <<"(">>, 1)
                 close == find(commentless,
                               IF is_named_struct THEN <<"}">>
                               ELSE <<")", ";">>, open + 1)
                 fields == SubSeq(commentless, open + 1, close - 1)
             IN  Emitted(Struct(parsed_fields(split(fields), is_named_struct)))

InitDerive ==
    /\ mem = FreshMem
    /\ mem0 = FreshMem
    /\ pc = "idle"
    /\ call = NoCall
    /\ view = NoView
    /\ ret = NoRet
    /\ wrote = NoWrite
    /\ ty = u8
    /\ verdict = "none"
    /\ decl \in Decls
    /\ gen = NoGen
    /\ th = NoThreads

\* #[derive(Safecast)] on the declaration
Derive ==
    /\ ~gen.done
    /\ gen' = derive_safecast(to_string(decl))
    /\ UNCHANGED <<mem, mem0, pc, call, view, ret, wrote, ty, verdict, decl,
                   th>>

\* the generated safecast(), called on a value of the struct
ValidateGenerated ==
    /\ gen.done /\ gen.emitted
    /\ verdict = "none"
    /\ ty' = gen.ty
    /\ verdict' = safecast(gen.ty)
    /\ UNCHANGED <<mem, mem0, pc, call, view, ret, wrote, decl, gen, th>>

NextDerive ==
    \/ Derive
    \/ ValidateGenerated

SpecDerive == InitDerive /\ [][NextDerive]_vars

(***************************************************************************)
(* The methods statement by statement, run by two threads on operands of   *)
(* their own.  A thread's pc names the statement it is about to run.       *)
(***************************************************************************)
Threads == {1, 2}

\* the statements of each method, in the order of the code
\* faulty variant: the operands are validated before their sizes are compared
CopyIntoSteps_validate_first ==
    <<"zst_self", "zst_dest", "safecast_self", "safecast_dest", "size_eq",
      "copy", "return">>
CopyIntoSteps ==
    <<"zst_self", "zst_dest", "size_eq", "safecast_self", "safecast_dest",
      "copy", "return">>
CopySteps == <<"alloc">> \o CopyIntoSteps
\* faulty variant: the divisibility assert is placed before the alignment assert
CastSteps_div_first ==
    <<"zst_self", "zst_T", "safecast_self", "divisible", "align",
      "from_raw_parts", "safecast_view", "return">>
\* faulty variant: self is not checked for zero size
CastSteps_no_zst_self ==
    <<"zst_T", "safecast_self", "align", "divisible", "from_raw_parts",
      "safecast_view", "return">>
CastSteps ==
    <<"zst_self", "zst_T", "safecast_self", "align", "divisible",
      "from_raw_parts", "safecast_view", "return">>
ValidateSteps == <<"safecast", "return">>
steps(op) ==
    CASE op = "cast_copy_into" -> CopyIntoSteps
      [] op = "cast_copy" -> CopySteps
      [] op \in {"cast", "cast_mut"} -> CastSteps
      [] op = "validate" -> ValidateSteps
\* the statement after p
succ(op, p) ==
    LET k == CHOOSE k \in 1..Len(steps(op)) : steps(op)[k] = p
    IN  IF k = Len(steps(op)) THEN "done" ELSE steps(op)[k + 1]

\* each thread's operands lie in its own part of memory
Base(t) == (t - 1) * (MemSize \div 2)
SelfAddr(t, aligned) == Base(t) + (IF aligned THEN 4 ELSE 5)
DestAddr(t) == Base(t) + 8
Padded4 == Struct(<<u16, u8>>)

\* a call about to be made by thread t; T of cast / cast_mut has no address
Job(t, op, selfty, aligned, destty) ==
    [op |-> op,
     self |-> Obj(selfty, SelfAddr(t, aligned)),
     dest |-> Obj(destty, IF op \in {"cast_copy_into", "cast_copy"}
                          THEN DestAddr(t) ELSE 0),
     pc |-> steps(op)[1], res |-> "none", view |-> NoView, casted |-> NoView,
     log |-> <<>>, i |-> 0, fill |-> 0, uninit |-> {}, seen_uninit |-> FALSE]
Idle ==
    [op |-> "none", self |-> NoObj, dest |-> NoObj, pc |-> "done",
     res |-> "none", view |-> NoView, casted |-> NoView, log |-> <<>>,
     i |-> 0, fill |-> 0, uninit |-> {}, seen_uninit |-> FALSE]

Sources ==
    {<<Slice(u8, 4), TRUE>>, <<Slice(u8, 3), FALSE>>, <<Slice(u8, 2), FALSE>>,
     <<Slice(u8, 0), TRUE>>, <<Au32, TRUE>>, <<Padded4, TRUE>>}
Targets == {u8, u16, u32, Au32, Padded4, Unit}
\* every call of the model, for a thread running while the other one is idle
Jobs(t) ==
    {Job(t, op, s[1], s[2], T) :
        op \in {"cast_copy", "cast", "cast_mut"}, s \in Sources, T \in Targets}
    \cup {Job(t, "cast_copy_into", s[1], s[2], T) :
             s \in Sources, T \in Targets \cup {Slice(u8, 4), Slice(u8, 0)}}
    \cup {Job(t, "validate", s[1], s[2], u8) : s \in Sources}
\* the calls two threads make at the same time
PairedJobs(t) ==
    {Job(t, "cast_copy_into", Slice(u8, 4), TRUE, Au32),
     Job(t, "cast_copy_into", Slice(u8, 3), FALSE, Slice(u8, 4)),
     Job(t, "cast_copy", Au32, TRUE, u32),
     Job(t, "cast_copy", Slice(u8, 4), TRUE, Padded4),
     Job(t, "cast", Slice(u8, 4), TRUE, u16),
     Job(t, "cast_mut", Slice(u8, 3), FALSE, u16),
     Job(t, "cast_mut", Slice(u8, 4), TRUE, Padded4),
     Job(t, "validate", Au32, TRUE, u8)}

InitThreads ==
    /\ mem = FreshMem
    /\ mem0 = FreshMem
    /\ pc = "idle"
    /\ call = NoCall
    /\ view = NoView
    /\ ret = NoRet
    /\ wrote = NoWrite
    /\ ty = u8
    /\ verdict = "none"
    /\ decl = NoDecl
    /\ gen = NoGen
    /\ \/ \E a \in PairedJobs(1), b \in PairedJobs(2) : th = <<a, b>>
       \/ \E a \in Jobs(1) : th = <<a, Idle>>
       \/ \E b \in Jobs(2) : th = <<Idle, b>>

\* the statement passes: on to the next one
Pass(t) ==
    [th EXCEPT ![t].pc = succ(th[t].op, th[t].pc),
               ![t].log = Append(@, th[t].pc)]
\* the assert of the statement fails: the thread unwinds with the message
Panic(t, msg) ==
    [th EXCEPT ![t].pc = "done", ![t].res = msg,
               ![t].log = Append(@, th[t].pc)]
Check(t, cond, msg) == IF cond THEN Pass(t) ELSE Panic(t, msg)
Frame == UNCHANGED <<mem0, pc, call, view, ret, wrote, ty, verdict, decl, gen>>

\* faulty variant: every byte of dest is given the first byte of the source
copy_byte_first(m, src, dst, i) == [m EXCEPT ![dst + i] = m[src]]

\* one byte of copy_nonoverlapping(src, dst, count)
copy_byte(m, src, dst, i) == [m EXCEPT ![dst + i] = m[src + i]]

\* let mut ret: T = mem::uninitialized();
ThreadAlloc ==
    \E t \in Threads :
       /\ th[t].pc = "alloc"
       /\ \E fill \in UninitFill :
          /\ mem' = uninitialized(mem, th[t].dest, fill)
          /\ th' = [Pass(t) EXCEPT ![t].fill = fill,
                                   ![t].uninit = Range(th[t].dest)]
       /\ Frame

\* assert!(size_of_val(self) > 0, "ZST not allowed");
ThreadZstSelf ==
    \E t \in Threads :
       /\ th[t].pc = "zst_self"
       /\ th' = Check(t, SizeOf(th[t].self.ty) > 0, ZeroSizedOperand)
       /\ UNCHANGED mem /\ Frame

\* assert!(size_of_val(dest) > 0, "ZST not allowed");
ThreadZstDest ==
    \E t \in Threads :
       /\ th[t].pc = "zst_dest"
       /\ th' = Check(t, SizeOf(th[t].dest.ty) > 0, ZeroSizedOperand)
       /\ UNCHANGED mem /\ Frame

\* assert!(size_of::<T>() > 0, "ZST not allowed");
ThreadZstT ==
    \E t \in Threads :
       /\ th[t].pc = "zst_T"
       /\ th' = Check(t, SizeOf(th[t].dest.ty) > 0, ZeroSizedOperand)
       /\ UNCHANGED mem /\ Frame

\* assert!(size_of_val(self) == size_of_val(dest), ...);
ThreadSizeEq ==
    \E t \in Threads :
       /\ th[t].pc = "size_eq"
       /\ th' = Check(t, SizeOf(th[t].self.ty) = SizeOf(th[t].dest.ty),
                      SizeMismatch)
       /\ UNCHANGED mem /\ Frame

\* Safecast::safecast(self);
ThreadSafecastSelf ==
    \E t \in Threads :
       /\ th[t].pc = "safecast_self"
       /\ th' = Check(t, safecast(th[t].self.ty) = Ok, safecast(th[t].self.ty))
       /\ UNCHANGED mem /\ Frame

\* Safecast::safecast(dest); dest is ret of cast_copy, as allocated
ThreadSafecastDest ==
    \E t \in Threads :
       /\ th[t].pc = "safecast_dest"
       /\ th' = [Check(t, safecast(th[t].dest.ty) = Ok,
                       safecast(th[t].dest.ty))
                    EXCEPT ![t].seen_uninit = (th[t].uninit # {})]
       /\ UNCHANGED mem /\ Frame

\* copy_nonoverlapping(self as *const u8, dest as *mut u8, size_of_val(self)),
\* a byte at a time
ThreadCopyByte ==
    \E t \in Threads :
       /\ th[t].pc = "copy"
       /\ mem' = copy_byte(mem, th[t].self.addr, th[t].dest.addr, th[t].i)
       /\ th' = [(IF th[t].i + 1 = SizeOf(th[t].self.ty) THEN Pass(t) ELSE th)
                    EXCEPT ![t].i = th[t].i + 1,
                           ![t].uninit = @ \ {th[t].dest.addr + th[t].i}]
       /\ Frame

\* assert!(align_of::<T>() > 0 && (src_ptr % align_of::<T>()) == 0, ...);
ThreadAlign ==
    \E t \in Threads :
       /\ th[t].pc = "align"
       /\ th' = Check(t, /\ AlignOf(th[t].dest.ty) > 0
                         /\ th[t].self.addr % AlignOf(th[t].dest.ty) = 0,
                      AlignmentMismatch)
       /\ UNCHANGED mem /\ Frame

\* assert!(size_of_val(self) % size_of::<T>() == 0, ...);
ThreadDivisible ==
    \E t \in Threads :
       /\ th[t].pc = "divisible"
       /\ th' = Check(t, SizeOf(th[t].self.ty) % SizeOf(th[t].dest.ty) = 0,
                      IndivisibleSize)
       /\ UNCHANGED mem /\ Frame

\* let casted = from_raw_parts(self as *const T, size / size_of::<T>());
ThreadFromRawParts ==
    \E t \in Threads :
       /\ th[t].pc = "from_raw_parts"
       /\ th' = [Pass(t) EXCEPT ![t].casted =
                    from_raw_parts(th[t].self.addr, th[t].dest.ty,
                                   SizeOf(th[t].self.ty)
                                      \div SizeOf(th[t].dest.ty),
                                   th[t].op = "cast_mut")]
       /\ UNCHANGED mem /\ Frame

\* Safecast::safecast(casted);
ThreadSafecastView ==
    \E t \in Threads :
       /\ th[t].pc = "safecast_view"
       /\ LET r == safecast(Slice(th[t].casted.elem, th[t].casted.len))
          IN  th' = Check(t, r = Ok, r)
       /\ UNCHANGED mem /\ Frame

\* a direct Safecast::safecast(&value)
ThreadValidate ==
    \E t \in Threads :
       /\ th[t].pc = "safecast"
       /\ th' = Check(t, safecast(th[t].self.ty) = Ok, safecast(th[t].self.ty))
       /\ UNCHANGED mem /\ Frame

\* the end of the method: the caller gets casted, or ret, or ()
ThreadReturn ==
    \E t \in Threads :
       /\ th[t].pc = "return"
       /\ th' = [Pass(t) EXCEPT ![t].res = Ok, ![t].view = th[t].casted]
       /\ UNCHANGED mem /\ Frame

NextThreads ==
    \/ ThreadAlloc
    \/ ThreadZstSelf
    \/ ThreadZstDest
    \/ ThreadZstT
    \/ ThreadSizeEq
    \/ ThreadSafecastSelf
    \/ ThreadSafecastDest
    \/ ThreadCopyByte
    \/ ThreadAlign
    \/ ThreadDivisible
    \/ ThreadFromRawParts
    \/ ThreadSafecastView
    \/ ThreadValidate
    \/ ThreadReturn

SpecThreads == InitThreads /\ [][NextThreads]_vars

(***************************************************************************)
(* Padding, read off the layout: a gap before a member, or after the last  *)
(* one, at any level of nesting.                                           *)
(***************************************************************************)
RECURSIVE NoPadding(_)
NoGaps(t) ==
    /\ \A k \in 1..Len(t.members) :
          OffsetOf(t.members, k) = EndOf(t.members, k - 1)
    /\ SizeOf(t) = EndOf(t.members, Len(t.members))
NoPadding(t) ==
    CASE t.kind = "prim" -> TRUE
      [] t.kind = "struct" ->
            NoGaps(t) /\ \A k \in 1..Len(t.members) : NoPadding(t.members[k])
      [] OTHER -> NoPadding(t.members[1])

\* a Capable Type: free of padding at every level, and not zero-sized
Capable(t) == NoPadding(t) /\ SizeOf(t) > 0
IsPaddedAggregate(t) == t.kind = "struct" /\ ~NoPadding(t)

IsCopy == pc = "done" /\ call.op \in {"cast_copy_into", "cast_copy"}
IsCast == pc = "done" /\ call.op \in {"cast", "cast_mut"}
SrcSize == SizeOf(call.src.ty)
DstSize == SizeOf(call.dst.ty)

(***************************************************************************)
(* C1: a cast_copy_into call whose operands have non-zero, equal sizes and *)
(* whose types both validate succeeds, and afterwards every byte of dest   *)
(* equals the byte of source at the same offset (the source's bytes as     *)
(* they were when the call was entered, and as they are now).              *)
(***************************************************************************)
C1_CopyBitIdentical ==
    (/\ pc = "done" /\ call.op = "cast_copy_into"
     /\ SrcSize > 0 /\ DstSize > 0 /\ SrcSize = DstSize
     /\ safecast(call.src.ty) = Ok /\ safecast(call.dst.ty) = Ok)
    => /\ call.res = Ok
       /\ \A i \in 0..(SrcSize - 1) :
             /\ mem[call.dst.addr + i] = mem0[call.src.addr + i]
             /\ mem[call.dst.addr + i] = mem[call.src.addr + i]

C1_Witness ==
    /\ pc = "done" /\ call.op = "cast_copy_into" /\ call.res = Ok
    /\ call.src.ty = Au32 /\ call.dst.ty = Slice(u8, 4)
    /\ BytesOf(mem, call.dst) = BytesOf(mem0, call.src)
    /\ BytesOf(mem, call.dst) # BytesOf(mem0, call.dst)

(***************************************************************************)
(* C2: when cast_copy_into or cast_copy fails, whatever the reason, no     *)
(* byte of the destination (indeed no byte of memory) differs from what it *)
(* was when cast_copy_into was entered.                                    *)
(***************************************************************************)
C2_FailedCopyWritesNothing ==
    (IsCopy /\ call.res # Ok) => mem = mem0

\* the last check to fail (padding in the destination type) fails before
\* the copy: every earlier check has passed
C2_Witness ==
    /\ IsCopy /\ call.res = PaddingDetected
    /\ SrcSize > 0 /\ SrcSize = DstSize
    /\ safecast(call.src.ty) = Ok
    /\ BytesOf(mem0, call.src) # BytesOf(mem0, call.dst)
    /\ BytesOf(mem, call.dst) = BytesOf(mem0, call.dst)

(***************************************************************************)
(* C3: round trip.  cast_copy::<T>(b) of a byte buffer b into a Capable    *)
(* type T of b's length succeeds; and copying the value it returned into a *)
(* byte buffer of the same length succeeds and leaves that buffer equal,   *)
(* byte for byte, to b.                                                    *)
(***************************************************************************)
C3_RoundTrip ==
    /\ (/\ pc = "done" /\ call.op = "cast_copy"
        /\ call.src.ty \in ByteBufs
        /\ Capable(call.dst.ty) /\ SrcSize = DstSize)
       => (call.res = Ok /\ ret.live /\ ret.obj = call.dst
           /\ ret.from = BytesOf(mem0, call.src))
    /\ (/\ pc = "done" /\ call.op = "cast_copy_into"
        /\ ret.live /\ call.src = ret.obj
        /\ call.dst.ty \in ByteBufs /\ DstSize = SrcSize)
       => (call.res = Ok /\ BytesOf(mem, call.dst) = ret.from)

C3_Witness ==
    /\ pc = "done" /\ call.op = "cast_copy_into" /\ call.res = Ok
    /\ ret.live /\ call.src = ret.obj
    /\ ret.obj.ty = Au32
    /\ call.dst.ty = Slice(u8, 4)
    /\ BytesOf(mem, call.dst) = ret.from
    /\ BytesOf(mem0, call.dst) # ret.from

(***************************************************************************)
(* C4: a successful cast / cast_mut returns a view of exactly              *)
(* size_of(source) / size_of(T) elements over the source's own storage:    *)
(* element i is the source's bytes [i*size_of(T), (i+1)*size_of(T)), the   *)
(* elements together cover exactly the source's bytes, the call itself     *)
(* copies or writes nothing, and a write to element i through a cast_mut   *)
(* view changes exactly those bytes of the source.                         *)
(***************************************************************************)
C4_ViewAliasesSource ==
    (IsCast /\ call.res = Ok) =>
       /\ view.live
       /\ view.mutable = (call.op = "cast_mut")
       /\ view.len = SrcSize \div DstSize
       /\ view.len * DstSize = SrcSize
       /\ \A i \in 0..(view.len - 1) :
             ElemRange(view, i) =
                (call.src.addr + i * DstSize)
                   ..(call.src.addr + (i + 1) * DstSize - 1)
       /\ ViewRange(view) = Range(call.src)
       /\ wrote.count = 0 => mem = mem0
       /\ wrote.count > 0 =>
             /\ call.op = "cast_mut"
             /\ \A a \in Addr :
                   mem[a] =
                      IF a \in (call.src.addr + wrote.idx * DstSize)
                                  ..(call.src.addr + (wrote.idx + 1) * DstSize - 1)
                      THEN wrote.byte ELSE mem0[a]

C4_Witness ==
    /\ IsCast /\ call.res = Ok /\ call.op = "cast_mut"
    /\ call.src.ty = Slice(u8, 8) /\ call.dst.ty = Au32
    /\ view.len = 2
    /\ wrote.count = 1 /\ wrote.idx = 1
    /\ \A a \in Range(call.src) :
          mem[a] = IF a >= call.src.addr + 4 THEN wrote.byte ELSE mem0[a]

(***************************************************************************)
(* C5: for every aggregate built from primitives, arrays and aggregates    *)
(* under the C layout rule, safecast() returns iff the layout has no       *)
(* padding byte at any level of nesting, and otherwise ends with the       *)
(* padding panic; an aggregate whose own member sizes add up to its size   *)
(* still fails when a member type contains padding.                        *)
(***************************************************************************)
C5_ValidateIffNoPadding ==
    (verdict # "none" /\ ty.kind # "slice") =>
       /\ verdict \in {Ok, PaddingDetected}
       /\ (verdict = Ok) <=> NoPadding(ty)

C5_Witness ==
    /\ verdict = PaddingDetected
    /\ ty.kind = "struct"
    /\ NoGaps(ty)
    /\ \E k \in 1..Len(ty.members) : ~NoPadding(ty.members[k])

(***************************************************************************)
(* C6 as stated: every cast_copy_into, cast_copy, cast and cast_mut call   *)
(* whose source type or target type is an aggregate with padding fails     *)
(* with PaddingDetected, and with no other condition.                      *)
(***************************************************************************)
OnPadded ==
    /\ pc = "done" /\ call.op # "none"
    /\ IsPaddedAggregate(call.src.ty) \/ IsPaddedAggregate(call.dst.ty)

C6_Original ==
    OnPadded => call.res = PaddingDetected

\* the checks a call makes before it validates a padded operand
EarlierChecksPass ==
    IF call.op \in {"cast_copy_into", "cast_copy"}
    THEN SrcSize > 0 /\ DstSize > 0 /\ SrcSize = DstSize
    ELSE /\ SrcSize > 0 /\ DstSize > 0
         /\ \/ safecast(call.src.ty) # Ok
            \/ call.src.addr % AlignOf(call.dst.ty) = 0
               /\ SrcSize % DstSize = 0

(***************************************************************************)
(* C6 amended: every such call fails, none succeeds; it fails with         *)
(* PaddingDetected whenever the checks made before the padded type is      *)
(* validated pass (copies: both sizes non-zero and equal; casts: both      *)
(* sizes non-zero and, for a padded target under a valid source, the       *)
(* source aligned to and divisible by T), and otherwise with the condition *)
(* of the earlier check that fails.                                        *)
(***************************************************************************)
C6_PaddedNeverSucceeds ==
    OnPadded =>
       /\ call.res # Ok
       /\ ~view.live
       /\ call.op = "cast_copy" => ~ret.live
       /\ mem = mem0
       /\ EarlierChecksPass => call.res = PaddingDetected
       /\ ~EarlierChecksPass =>
             call.res \in {ZeroSizedOperand, SizeMismatch,
                           AlignmentMismatch, IndivisibleSize}

\* a padded target of cast, reached only by the validation of the view
C6_Witness ==
    /\ IsCast /\ call.op = "cast"
    /\ call.dst.ty = Au32Pad /\ call.src.ty = Slice(u8, 8)
    /\ call.res = PaddingDetected

(***************************************************************************)
(* C7: cast / cast_mut of a non-empty Capable source whose start address   *)
(* is not a multiple of align_of(T), T not zero-sized, fails with          *)
(* AlignmentMismatch and returns no view, also when size_of(source) is a   *)
(* multiple of size_of(T).                                                 *)
(***************************************************************************)
C7_MisalignedRejected ==
    (/\ IsCast
     /\ Capable(call.src.ty) /\ DstSize > 0
     /\ call.src.addr % AlignOf(call.dst.ty) # 0)
    => (call.res = AlignmentMismatch /\ ~view.live)

C7_Witness ==
    /\ IsCast /\ call.op = "cast_mut"
    /\ Capable(call.src.ty) /\ DstSize > 0
    /\ SrcSize % DstSize = 0
    /\ call.src.addr % AlignOf(call.dst.ty) # 0
    /\ call.res = AlignmentMismatch

(***************************************************************************)
(* C8 as stated: the 4-byte sub-slice at offset 2 of a 6-byte byte buffer, *)
(* cast to a 4-byte aggregate whose alignment does not divide 2, fails     *)
(* with AlignmentMismatch wherever the buffer starts.                      *)
(***************************************************************************)
\* the source is buffer[2..6] of a 6-byte buffer starting at call.src.addr - 2
SubSliceAt2 ==
    /\ IsCast
    /\ call.src.ty = Slice(u8, 4)
    /\ call.src.addr - 2 \in Addr
    /\ call.src.addr + 3 \in Addr
    /\ call.dst.ty.kind = "struct" /\ DstSize = 4
    /\ 2 % AlignOf(call.dst.ty) # 0

C8_Original ==
    SubSliceAt2 => call.res = AlignmentMismatch

(***************************************************************************)
(* C8 amended: that cast fails with AlignmentMismatch exactly when the     *)
(* sub-slice's own start address (the buffer's start address plus 2) is    *)
(* not a multiple of the aggregate's alignment; when it is a multiple, the *)
(* alignment check passes and the call goes on to its later checks (a      *)
(* padding-free aggregate yields a one-element view).                      *)
(***************************************************************************)
C8_SubSliceAlignment ==
    SubSliceAt2 =>
       /\ (call.res = AlignmentMismatch)
             <=> (call.src.addr % AlignOf(call.dst.ty) # 0)
       /\ (call.src.addr % AlignOf(call.dst.ty) = 0 /\ NoPadding(call.dst.ty))
             => (call.res = Ok /\ view.live /\ view.len = 1)

C8_Witness ==
    /\ SubSliceAt2
    /\ call.dst.ty = Au32
    /\ call.src.addr % 4 = 0
    /\ call.res = Ok

(***************************************************************************)
(* C9 as stated: cast / cast_mut of a non-empty buffer whose length is not *)
(* a multiple of size_of(T) fails with IndivisibleSize at every start      *)
(* address of the buffer.                                                  *)
(***************************************************************************)
Indivisible ==
    /\ IsCast
    /\ Capable(call.src.ty) /\ DstSize > 0
    /\ SrcSize % DstSize # 0

C9_Original ==
    (Indivisible /\ call.src.ty \in ByteBufs) => call.res = IndivisibleSize

(***************************************************************************)
(* C9 amended: such a call always fails and returns no view; it fails with *)
(* IndivisibleSize when the buffer's start address is a multiple of        *)
(* align_of(T), and with AlignmentMismatch (the earlier check) when it is  *)
(* not.                                                                    *)
(***************************************************************************)
C9_IndivisibleRejected ==
    Indivisible =>
       /\ ~view.live
       /\ call.src.addr % AlignOf(call.dst.ty) = 0
             => call.res = IndivisibleSize
       /\ call.src.addr % AlignOf(call.dst.ty) # 0
             => call.res = AlignmentMismatch

C9_Witness ==
    /\ Indivisible
    /\ call.src.ty = Slice(u8, 3) /\ call.dst.ty = Au32
    /\ call.src.addr % 4 = 0
    /\ call.res = IndivisibleSize

(***************************************************************************)
(* C10: every cast_copy_into, cast_copy, cast and cast_mut call whose      *)
(* source has size 0 (an empty slice included) or whose destination /      *)
(* target element type has size 0 fails with ZeroSizedOperand, writes no   *)
(* byte and returns no view and no value.                                  *)
(***************************************************************************)
C10_ZeroSizeRejected ==
    (/\ pc = "done" /\ call.op # "none"
     /\ SrcSize = 0 \/ DstSize = 0)
    => /\ call.res = ZeroSizedOperand
       /\ mem = mem0
       /\ ~view.live
       /\ call.op = "cast_copy" => ~ret.live

C10_Witness ==
    /\ pc = "done" /\ call.op = "cast_copy_into"
    /\ SrcSize > 0 /\ call.dst.ty = Slice(u8, 0)
    /\ call.res = ZeroSizedOperand

(***************************************************************************)
(* C11: cast_mut fails exactly when cast fails on the same source (type,   *)
(* size, address) and target, and with the same condition; when both       *)
(* succeed their views have the same element count and cover the same      *)
(* bytes, the one of cast_mut being mutable.                               *)
(***************************************************************************)
C11_CastMutEquivalent ==
    IsCast =>
       LET a == cast(call.src, call.dst.ty)
           b == cast_mut(call.src, call.dst.ty)
       IN  /\ call.res = (IF call.op = "cast" THEN a.res ELSE b.res)
           /\ a.res = b.res
           /\ a.view.live = b.view.live
           /\ a.view.live = (a.res = Ok)
           /\ a.view.len = b.view.len
           /\ a.view.ptr = b.view.ptr
           /\ ViewRange(a.view) = ViewRange(b.view)
           /\ a.res = Ok => (b.view.mutable /\ ~a.view.mutable)

C11_Witness ==
    /\ IsCast /\ call.op = "cast_mut" /\ call.res = IndivisibleSize
    /\ cast(call.src, call.dst.ty).res = IndivisibleSize
    /\ call.src.addr % AlignOf(call.dst.ty) = 0

(***************************************************************************)
(* C16: every failing cast_copy_into, cast_copy, cast or cast_mut call     *)
(* reports one of the five conditions, whose reports are pairwise          *)
(* distinct; none fails in another way (an index or arithmetic fault).     *)
(***************************************************************************)
Conditions ==
    {ZeroSizedOperand, SizeMismatch, AlignmentMismatch, IndivisibleSize,
     PaddingDetected}

C16_FiveDistinctConditions ==
    (pc = "done" /\ call.op # "none" /\ call.res # Ok)
    => (call.res \in Conditions /\ Cardinality(Conditions) = 5)

\* an empty slice as source: stopped by the zero-size assert, not by &self[0]
C16_Witness ==
    /\ IsCast /\ call.src.ty = Slice(u8, 0) /\ DstSize > 0
    /\ call.res = ZeroSizedOperand

(***************************************************************************)
(* C17 as stated: every failure of a cast / copy call carries, besides the *)
(* violated condition, the two values that were compared (the two sizes    *)
(* for SizeMismatch, IndivisibleSize and PaddingDetected; the address and  *)
(* the required alignment for AlignmentMismatch).                          *)
(***************************************************************************)
C17_Original ==
    (/\ pc = "done" /\ call.op # "none"
     /\ call.res \in {SizeMismatch, IndivisibleSize, AlignmentMismatch,
                      PaddingDetected})
    => /\ Len(panic_args(call.res)) = 2
       /\ call.res \in {SizeMismatch, IndivisibleSize}
             => panic_args(call.res) = <<SrcSize, DstSize>>
       /\ call.res = AlignmentMismatch
             => panic_args(call.res) = <<call.src.addr, AlignOf(call.dst.ty)>>

(***************************************************************************)
(* C19: the only bytes a call writes are those of the destination of a     *)
(* successful cast_copy_into / cast_copy; cast and cast_mut (and the       *)
(* safecast calls made inside every operation) write no byte, and the      *)
(* source's bytes are the same after every call, successful or not.        *)
(***************************************************************************)
C19_OnlyDestinationWritten ==
    (pc = "done" /\ call.op # "none" /\ wrote.count = 0)
    => /\ \A a \in Addr :
             mem[a] # mem0[a]
                => (IsCopy /\ call.res = Ok /\ a \in Range(call.dst))
       /\ BytesOf(mem, call.src) = BytesOf(mem0, call.src)
       /\ IsCast => mem = mem0

C19_Witness ==
    /\ IsCopy /\ call.res = Ok /\ call.op = "cast_copy_into"
    /\ \A a \in Range(call.dst) : mem[a] # mem0[a]
    /\ \A a \in Addr \ Range(call.dst) : mem[a] = mem0[a]
    /\ BytesOf(mem, call.src) = BytesOf(mem0, call.src)

(***************************************************************************)
(* C13: safecast on a fixed-length array (every length 1..256) or on a     *)
(* non-empty slice is safecast on element 0, and that outcome is the       *)
(* outcome of safecast on each element of the sequence; for a Capable      *)
(* element type it is ok.  (The outcome is a function of the element type: *)
(* safecast reads no byte.)                                                *)
(***************************************************************************)
C13_SequenceByElementZero ==
    (verdict # "none" /\ ty.kind \in {"array", "slice"} /\ ty.n >= 1)
    => /\ in_bounds(ty, 0)
       /\ verdict = safecast(index(ty, 0))
       /\ \A i \in 0..(ty.n - 1) :
             in_bounds(ty, i) /\ verdict = safecast(index(ty, i))
       /\ Capable(index(ty, 0)) => verdict = Ok
       /\ ~NoPadding(index(ty, 0)) => verdict = PaddingDetected

C13_Witness ==
    /\ verdict = Ok
    /\ ty = Array(Au32, MaxImplLen)
    /\ \A i \in 0..(MaxImplLen - 1) : safecast(index(ty, i)) = Ok

(***************************************************************************)
(* C14: safecast called directly on an empty slice never returns ok: it    *)
(* aborts on the bounds check of element 0.                                *)
(***************************************************************************)
C14_EmptySliceFailsClosed ==
    (verdict # "none" /\ ty.kind = "slice" /\ ty.n = 0)
    => (verdict # Ok /\ verdict = IndexOutOfBounds)

C14_Witness ==
    /\ ty = Slice(Au32, 0)
    /\ verdict = IndexOutOfBounds

(***************************************************************************)
(* C15 as stated: derive(Safecast) emits an impl exactly for the           *)
(* declarations that are #[repr(C)] structs with at least one member; it   *)
(* refuses, emitting nothing, every declaration without #[repr(C)] and     *)
(* every struct with zero members: unit, empty named, empty tuple.         *)
(***************************************************************************)
C15_Original ==
    gen.done
    => (gen.emitted <=> (/\ decl.repr_c
                         /\ decl.shape \in {"named", "tuple"}
                         /\ Len(decl.members) >= 1))

\* what does hold: no impl without #[repr(C)], none for a unit struct, and an
\* emitted impl has the declared members
C15_RefusesNoReprAndUnit ==
    gen.done
    => /\ gen.emitted <=> (decl.repr_c /\ decl.shape \in {"named", "tuple"})
       /\ gen.emitted => gen.ty = Struct(decl.members)

C15_EmptyStructAccepted ==
    /\ gen.done /\ gen.emitted
    /\ decl.shape = "tuple" /\ decl.members = <<>>
    /\ verdict = Ok /\ SizeOf(ty) = 0

(***************************************************************************)
(* C12 as stated: in every execution of cast_copy the new value ret is not *)
(* passed to safecast (or otherwise observed) before all of its bytes have *)
(* been written, and no partially initialized value is returned.           *)
(***************************************************************************)
C12_Original ==
    \A t \in Threads :
       th[t].op = "cast_copy"
       => /\ ~th[t].seen_uninit
          /\ (th[t].pc = "done" /\ th[t].res = Ok) => th[t].uninit = {}

\* what does hold: a ret that is returned has had all its bytes written
C12_NoPartialValueReturned ==
    \A t \in Threads :
       (th[t].op = "cast_copy" /\ th[t].pc = "done" /\ th[t].res = Ok)
       => th[t].uninit = {}

C12_ValidatedBeforeWritten ==
    \E t \in Threads :
       /\ th[t].op = "cast_copy" /\ th[t].pc = "copy" /\ th[t].i = 0
       /\ th[t].seen_uninit
       /\ th[t].uninit = Range(th[t].dest)

(***************************************************************************)
(* C18: two threads whose operands occupy disjoint storage: in every       *)
(* interleaving of their statements each thread ends with the outcome      *)
(* (result, view or failure condition) and the operand bytes that its call *)
(* alone, run as one step on fresh memory, ends with.                      *)
(***************************************************************************)
Alone(j) ==
    CASE j.op = "validate" ->
            [res |-> safecast(j.self.ty), mem |-> FreshMem, view |-> NoView]
      [] j.op = "cast_copy_into" ->
            LET r == cast_copy_into(j.self, j.dest, FreshMem)
            IN  [res |-> r.res, mem |-> r.mem, view |-> NoView]
      [] j.op = "cast_copy" ->
            LET r == cast_copy(j.self, j.dest,
                               uninitialized(FreshMem, j.dest, j.fill))
            IN  [res |-> r.res, mem |-> r.mem, view |-> NoView]
      [] j.op = "cast" ->
            LET r == cast(j.self, j.dest.ty)
            IN  [res |-> r.res, mem |-> FreshMem, view |-> r.view]
      [] j.op = "cast_mut" ->
            LET r == cast_mut(j.self, j.dest.ty)
            IN  [res |-> r.res, mem |-> FreshMem, view |-> r.view]

Storage(j) ==
    Range(j.self)
    \cup (IF j.op \in {"cast_copy_into", "cast_copy"} THEN Range(j.dest) ELSE {})

C18_NoInterference ==
    Storage(th[1]) \cap Storage(th[2]) = {}
    => \A t \in Threads :
          (th[t].pc = "done" /\ th[t].op # "none")
          => /\ th[t].res = Alone(th[t]).res
             /\ th[t].view = Alone(th[t]).view
             /\ \A a \in Storage(th[t]) : mem[a] = Alone(th[t]).mem[a]

\* thread 2 has completed a cast_copy while thread 1 is half way through its copy
C18_Witness ==
    /\ th[1].op = "cast_copy_into" /\ th[1].pc = "copy"
    /\ th[1].i > 0 /\ th[1].i < SizeOf(th[1].self.ty)
    /\ th[2].op = "cast_copy" /\ th[2].pc = "done" /\ th[2].res = Ok
    /\ BytesOf(mem, th[2].dest) = BytesOf(FreshMem, th[2].self)
    /\ Storage(th[1]) \cap Storage(th[2]) = {}

(***************************************************************************)
(* C20: cast and cast_mut run: zero-size check of the source, zero-size    *)
(* check of T, safecast(source), alignment check, divisibility check,      *)
(* construction of the view, safecast of the view; they stop at the first  *)
(* step whose condition fails and report that step's condition.  So a      *)
(* misaligned and indivisible source reports AlignmentMismatch, a padded T *)
(* is reported only when alignment and divisibility hold, and a view whose *)
(* validation fails is never handed to the caller.                         *)
(***************************************************************************)
CastOrder ==
    <<"zst_self", "zst_T", "safecast_self", "align", "divisible",
      "from_raw_parts", "safecast_view", "return">>

StepHolds(j, step) ==
    CASE step = "zst_self" -> SizeOf(j.self.ty) > 0
      [] step = "zst_T" -> SizeOf(j.dest.ty) > 0
      [] step = "safecast_self" -> NoPadding(j.self.ty)
      [] step = "align" -> j.self.addr % AlignOf(j.dest.ty) = 0
      [] step = "divisible" -> SizeOf(j.self.ty) % SizeOf(j.dest.ty) = 0
      [] step = "safecast_view" -> NoPadding(j.dest.ty)
      [] OTHER -> TRUE

ConditionOf(step) ==
    CASE step \in {"zst_self", "zst_T"} -> ZeroSizedOperand
      [] step \in {"safecast_self", "safecast_view"} -> PaddingDetected
      [] step = "align" -> AlignmentMismatch
      [] step = "divisible" -> IndivisibleSize
      [] OTHER -> Ok

C20_CastStepOrder ==
    \A t \in Threads :
       th[t].op \in {"cast", "cast_mut"}
       => LET j == th[t]
              n == Len(j.log)
          IN  /\ n <= Len(CastOrder)
              /\ j.log = SubSeq(CastOrder, 1, n)
              /\ j.pc # "done" => j.pc = CastOrder[n + 1]
              /\ \A k \in 1..(n - 1) : StepHolds(j, CastOrder[k])
              /\ (j.pc = "done" /\ j.res # Ok)
                    => /\ ~StepHolds(j, CastOrder[n])
                       /\ j.res = ConditionOf(CastOrder[n])
                       /\ ~j.view.live
              /\ (j.pc = "done" /\ j.res = Ok)
                    => /\ j.log = CastOrder
                       /\ \A k \in 1..n : StepHolds(j, CastOrder[k])
                       /\ j.view.live
              /\ j.pc # "done" => ~j.view.live
              /\ (/\ j.pc = "done" /\ SizeOf(j.self.ty) > 0
                  /\ SizeOf(j.dest.ty) > 0 /\ NoPadding(j.self.ty)
                  /\ j.self.addr % AlignOf(j.dest.ty) # 0
                  /\ SizeOf(j.self.ty) % SizeOf(j.dest.ty) # 0)
                    => j.res = AlignmentMismatch
              /\ (/\ j.pc = "done" /\ j.res = PaddingDetected
                  /\ NoPadding(j.self.ty))
                    => /\ ~NoPadding(j.dest.ty)
                       /\ j.self.addr % AlignOf(j.dest.ty) = 0
                       /\ SizeOf(j.self.ty) % SizeOf(j.dest.ty) = 0

\* a misaligned, indivisible source: stopped at the alignment check
C20_Witness ==
    \E t \in Threads :
       /\ th[t].op = "cast_mut" /\ th[t].pc = "done"
       /\ th[t].self.addr % AlignOf(th[t].dest.ty) # 0
       /\ SizeOf(th[t].self.ty) % SizeOf(th[t].dest.ty) # 0
       /\ ~NoPadding(th[t].dest.ty)
       /\ th[t].res = AlignmentMismatch
       /\ th[t].log = <<"zst_self", "zst_T", "safecast_self", "align">>

(***************************************************************************)
(* C21: cast_copy_into checks, in this order: size of the source > 0, size *)
(* of the destination > 0, sizes equal, safecast(source), safecast(dest);  *)
(* it stops at the first check that fails and reports that check's         *)
(* condition, and copies only after all five have passed.  So operands of  *)
(* different sizes report SizeMismatch even when a type has padding, and a *)
(* zero-sized operand reports ZeroSizedOperand even when the sizes differ. *)
(***************************************************************************)
CopyIntoOrder ==
    <<"zst_self", "zst_dest", "size_eq", "safecast_self", "safecast_dest",
      "copy", "return">>

CopyStepHolds(j, step) ==
    CASE step = "zst_self" -> SizeOf(j.self.ty) > 0
      [] step = "zst_dest" -> SizeOf(j.dest.ty) > 0
      [] step = "size_eq" -> SizeOf(j.self.ty) = SizeOf(j.dest.ty)
      [] step = "safecast_self" -> NoPadding(j.self.ty)
      [] step = "safecast_dest" -> NoPadding(j.dest.ty)
      [] OTHER -> TRUE

CopyConditionOf(step) ==
    CASE step \in {"zst_self", "zst_dest"} -> ZeroSizedOperand
      [] step = "size_eq" -> SizeMismatch
      [] step \in {"safecast_self", "safecast_dest"} -> PaddingDetected
      [] OTHER -> Ok

DestUntouched(j) == \A a \in Range(j.dest) : mem[a] = FreshMem[a]

C21_CopyIntoCheckOrder ==
    \A t \in Threads :
       th[t].op = "cast_copy_into"
       => LET j == th[t]
              n == Len(j.log)
          IN  /\ n <= Len(CopyIntoOrder)
              /\ j.log = SubSeq(CopyIntoOrder, 1, n)
              /\ j.pc # "done" => j.pc = CopyIntoOrder[n + 1]
              /\ \A k \in 1..(n - 1) : CopyStepHolds(j, CopyIntoOrder[k])
              /\ (j.pc = "done" /\ j.res # Ok)
                    => /\ ~CopyStepHolds(j, CopyIntoOrder[n])
                       /\ j.res = CopyConditionOf(CopyIntoOrder[n])
                       /\ DestUntouched(j)
              /\ ~DestUntouched(j)
                    => \A k \in 1..5 : CopyStepHolds(j, CopyIntoOrder[k])
              /\ (j.pc \notin {"copy", "return", "done"}) => DestUntouched(j)
              /\ (/\ j.pc = "done" /\ SizeOf(j.self.ty) > 0
                  /\ SizeOf(j.dest.ty) > 0
                  /\ SizeOf(j.self.ty) # SizeOf(j.dest.ty))
                    => j.res = SizeMismatch
              /\ (/\ j.pc = "done"
                  /\ (SizeOf(j.self.ty) = 0 \/ SizeOf(j.dest.ty) = 0))
                    => j.res = ZeroSizedOperand

\* a padded destination of another size than the source: SizeMismatch
C21_Witness ==
    \E t \in Threads :
       /\ th[t].op = "cast_copy_into" /\ th[t].pc = "done"
       /\ SizeOf(th[t].self.ty) > 0 /\ SizeOf(th[t].dest.ty) > 0
       /\ SizeOf(th[t].self.ty) # SizeOf(th[t].dest.ty)
       /\ ~NoPadding(th[t].dest.ty)
       /\ th[t].res = SizeMismatch
       /\ th[t].log = <<"zst_self", "zst_dest", "size_eq">>

(***************************************************************************)
(* C22: in no execution of cast_copy_into, cast_copy, cast or cast_mut is  *)
(* safecast run on an empty slice, or a remainder or quotient taken by     *)
(* zero: whenever a thread is about to validate an operand, that operand   *)
(* is not an empty slice; the element size is > 0 where it is a divisor;   *)
(* the alignment is > 0; and the slice that cast / cast_mut constructs has *)
(* at least one element when safecast is run on it.  No such call ends     *)
(* with an index fault.                                                    *)
(***************************************************************************)
NonEmpty(t) == t.kind = "slice" => in_bounds(t, 0)

C22_NoEmptyValidationNoZeroDivisor ==
    \A t \in Threads :
       th[t].op \in {"cast_copy_into", "cast_copy", "cast", "cast_mut"}
       => LET j == th[t]
          IN  /\ j.pc = "safecast_self" => NonEmpty(j.self.ty)
              /\ j.pc = "safecast_dest" => NonEmpty(j.dest.ty)
              /\ j.pc = "align" => AlignOf(j.dest.ty) > 0
              /\ j.pc \in {"divisible", "from_raw_parts"}
                    => SizeOf(j.dest.ty) > 0
              /\ j.pc = "safecast_view"
                    => /\ j.casted.live /\ j.casted.len >= 1
                       /\ NonEmpty(Slice(j.casted.elem, j.casted.len))
              /\ j.res # IndexOutOfBounds

\* an empty slice as the source of a cast: stopped before safecast(self)
C22_Witness ==
    \E t \in Threads :
       /\ th[t].op = "cast" /\ th[t].pc = "done"
       /\ th[t].self.ty = Slice(u8, 0) /\ SizeOf(th[t].dest.ty) > 0
       /\ th[t].res = ZeroSizedOperand
       /\ th[t].log = <<"zst_self">>
====
